---- MODULE Spec2Model ----
(***************************************************************************)
(* State-machine model of the wallet service (internal/wallet/wallet.go).  *)
(* Every goroutine calling into one shared *WalletService is a thread of   *)
(* Threads; each step is one synchronisation point of the Go code: a       *)
(* sync.Mutex / sync.RWMutex acquisition, or the block of code that runs   *)
(* between an acquisition and the next blocking call.                      *)
(* Amounts and balances are exact fixed-point values (decimal.Decimal),    *)
(* written as integers in the smallest unit.                               *)
(***************************************************************************)
EXTENDS Integers, Sequences, FiniteSets, TLC

VARIABLES
    users,        \* ws.users:   userID -> [Name, Email]
    wallets,      \* ws.wallets: userID -> wallet.Balance
    walletMu,     \* ws.wallets[id].mu (sync.RWMutex): userID -> [readers, writer]
    transactions, \* ws.transactions
    mu,           \* ws.mu (sync.RWMutex): [readers, writer]
    userLocks,    \* ws.userLocks.locks (sync.Map): userID -> holder of the mutex
    pc,           \* per thread: the next synchronisation point of its call
    call,         \* per thread: the call in progress
    eff,          \* per thread (history): what the call in progress has done so far
    returned,     \* history: the call that returned in the last step, if one did
    okCreates,    \* history: userID -> number of CreateUser calls that returned nil
    now,          \* the clock: what time.Now().UnixNano() returns
    snapshot      \* the slice the last GetAllUsers call returned, kept by its caller

vars == <<users, wallets, walletMu, transactions, mu, userLocks, pc, call, eff, returned,
          okCreates, now, snapshot>>

\* the state of the service
shared == <<users, wallets, walletMu, transactions, mu, userLocks>>

-----------------------------------------------------------------------------
(* Bounds of the model *)

\* at most this many entries are ever appended to ws.transactions
MaxTx == 3

\* the clock is read-only to the program and advances at most this far
MaxClock == 2

\* decimal amounts have at most this many digits after the point
MaxScale == 3

Threads == {"t1", "t2"}
NoThread == "none"

\* user ids, in the order of Go's string comparison
IdOrder == <<"a", "b", "c", "d">>
\* the ids callers pass, except where four accounts are needed
UserIDs == {"a", "b"}
Names == {"n1"}
Emails == {"e1"}
\* amounts a caller may pass: negative, zero and positive amounts
Amounts == {-1, 0, 1, 2}
DepositAmounts == {-1, 0, 1}

-----------------------------------------------------------------------------
(* types.go: errors and transaction types *)

ErrUserNotFound == "user not found"
ErrInsufficientBalance == "insufficient balance"
ErrInvalidAmount == "invalid amount"
ErrSameUserTransfer == "cannot transfer to same user"
ErrUserAlreadyExists == "user already exists"
Nil == "nil"

TransactionDeposit == "deposit"
TransactionWithdraw == "withdraw"
TransactionTransfer == "transfer"

-----------------------------------------------------------------------------
(* sync.RWMutex and sync.Mutex *)

\* the zero value of a sync.RWMutex
RWMutexZero == [readers |-> {}, writer |-> NoThread]

\* RLock returns only while no writer holds the lock or has announced itself
\* (a pending Lock call blocks new readers)
CanRLock(m) == m.writer = NoThread

\* Lock first excludes the other writers, then waits for the active readers
CanAnnounceLock(m) == m.writer = NoThread
CanLock(m, t) == m.writer = t /\ m.readers = {}

RLocked(m, t) == [m EXCEPT !.readers = @ \cup {t}]
RUnlocked(m, t) == [m EXCEPT !.readers = @ \ {t}]
LockAnnounced(m, t) == [m EXCEPT !.writer = t]

\* a slip: a return path without its Unlock
StillLocked(m) == m

Unlocked(m) == [m EXCEPT !.writer = NoThread]

\* a slip: Lock() that does not wait for the holder
MutexUnchecked(id) == TRUE

\* a slip: one mutex for the whole table, free when no id's mutex is held
MutexFreeAll(id) == \A i \in DOMAIN userLocks : userLocks[i] = NoThread

\* a sync.Mutex in the lock table: held by a thread, or free
MutexFree(id) == userLocks[id] = NoThread

-----------------------------------------------------------------------------
(* helpers of the code *)

\* a slip: LessThan for LessThanOrEqual, so that a zero amount passes
InvalidAmountNegativeOnly(amount) == amount < 0

\* decimalAmount.LessThanOrEqual(decimal.Zero)
InvalidAmount(amount) == amount <= 0

\* a slip: the balance compared with zero, not with the amount
InsufficientBelowZero(balance, amount) == balance < 0

\* a slip: LessThanOrEqual for LessThan, so that the whole balance cannot be taken
InsufficientOrEqual(balance, amount) == balance <= amount

\* wallet.Balance.LessThan(decimalAmount)
Insufficient(balance, amount) == balance < amount

\* a slip: the same-user test left out
SameUserUnchecked(fromUserID, toUserID) == FALSE

\* fromUserID == toUserID
SameUser(fromUserID, toUserID) == fromUserID = toUserID

\* a slip: the amount added twice
AddTwice(balance, amount) == balance + amount + amount

\* wallet.Balance.Add
Add(balance, amount) == balance + amount

\* a slip: Add for Sub in the debit
SubAdding(balance, amount) == balance + amount

\* wallet.Balance.Sub
Sub(balance, amount) == balance - amount

\* userID1 < userID2 on Go strings
IdIndex(id) == CHOOSE i \in 1..Len(IdOrder) : IdOrder[i] = id
IdLess(id1, id2) == IdIndex(id1) < IdIndex(id2)

\* a slip: Store for LoadOrStore, a new free mutex put in the table at every call
getLockStoring(locks, userID) ==
    [i \in DOMAIN locks \cup {userID} |-> IF i = userID THEN NoThread ELSE locks[i]]

\* userLockManager.getLock: LoadOrStore keeps an existing entry and stores a
\* free mutex for a new id
getLock(locks, userID) ==
    IF userID \in DOMAIN locks
    THEN locks
    ELSE [i \in DOMAIN locks \cup {userID} |-> IF i = userID THEN NoThread ELSE locks[i]]

\* a slip: the locks in the order of the arguments
getCallerOrderedLocks(userID1, userID2) == <<userID1, userID2>>

\* a slip: > for <, the two locks in descending order
getDescendingLocks(userID1, userID2) ==
    IF IdLess(userID2, userID1) THEN <<userID1, userID2>> ELSE <<userID2, userID1>>

\* getOrderedLocks: the two locks, the one to take first in front
getOrderedLocks(userID1, userID2) ==
    IF IdLess(userID1, userID2) THEN <<userID1, userID2>> ELSE <<userID2, userID1>>

\* generateTransactionID: fmt.Sprintf("tx_%d", time.Now().UnixNano()), a
\* prefix and the digits of the clock value (one id per clock value)
generateTransactionID(nano) == <<"tx_", nano>>

\* the Transaction a call records (Description and Timestamp left out)
Tx(id, from, to, amount, type) ==
    [ID |-> id, FromUserID |-> from, ToUserID |-> to, Amount |-> amount, Type |-> type]

\* a slip: the log replaced by the new entry
AppendedOverwriting(txs, tx) == <<tx>>

\* a slip: the new entry put in front of the log
AppendedInFront(txs, tx) == <<tx>> \o txs

\* recordTransaction's append
Appended(txs, tx) == Append(txs, tx)

-----------------------------------------------------------------------------
(* per-thread bookkeeping *)

NoCall == [op |-> "none", userID |-> "", toUserID |-> "", amount |-> 0, name |-> "", email |-> ""]
\* locks: per-account locks acquired (user mutexes and wallet mutexes);
\* getLocks: getLock calls made; dFrom, dTo: net change written to the balance
\* of userID / toUserID; writes: balance writes; log: entries appended;
\* sFrom, sTo: the two balances when the call had taken its user lock(s);
\* txID: the ID of the Transaction the call has built
NoID == <<>>
NoEff == [locks |-> 0, getLocks |-> 0, dFrom |-> 0, dTo |-> 0, writes |-> 0, log |-> 0,
          sFrom |-> 0, sTo |-> 0, txID |-> NoID]
\* val: the balance returned; list: the slice returned
NoReturn == [call |-> NoCall, err |-> "none", val |-> 0, list |-> <<>>, eff |-> NoEff]
\* ptrs: the *User elements of the slice; seen: the User values they pointed
\* to when the slice was returned
NoSnapshot == [ptrs |-> <<>>, seen |-> <<>>]

Idle(t) == pc[t] = "idle"
InProgress(t) == ~Idle(t)

\* calls in flight that may still append to the log
Mutators == {"Deposit", "DepositDecimal", "Withdraw", "Transfer"}
InFlight == Cardinality({t \in DOMAIN pc : InProgress(t) /\ call[t].op \in Mutators})
MayStartMutator == Len(transactions) + InFlight < MaxTx

\* a thread that is in no call makes call c and reaches its first
\* synchronisation point
Enter(t, c, label, e) ==
    /\ Idle(t)
    /\ call' = [call EXCEPT ![t] = c]
    /\ pc' = [pc EXCEPT ![t] = label]
    /\ eff' = [eff EXCEPT ![t] = e]
    /\ returned' = NoReturn
    /\ UNCHANGED <<now, snapshot>>

\* a thread that is in no call makes call c, which returns err at once
Reject(t, c, err) ==
    /\ Idle(t)
    /\ returned' = [NoReturn EXCEPT !.call = c, !.err = err]
    /\ UNCHANGED <<pc, call, eff, now, snapshot>>

\* the call in progress goes on to its next synchronisation point
Step(t, label, e) ==
    /\ pc' = [pc EXCEPT ![t] = label]
    /\ eff' = [eff EXCEPT ![t] = e]
    /\ returned' = NoReturn
    /\ UNCHANGED <<call, now, snapshot>>

\* the call in progress returns
Returning(t, r) ==
    /\ pc' = [pc EXCEPT ![t] = "idle"]
    /\ call' = [call EXCEPT ![t] = NoCall]
    /\ eff' = [eff EXCEPT ![t] = NoEff]
    /\ returned' = r
    /\ UNCHANGED now

\* the call in progress returns (err, val)
Return(t, err, val, e) ==
    /\ Returning(t, [NoReturn EXCEPT !.call = call[t], !.err = err, !.val = val, !.eff = e])
    /\ UNCHANGED snapshot

\* the call in progress returns (list, err)
ReturnList(t, err, list) ==
    Returning(t, [NoReturn EXCEPT !.call = call[t], !.err = err, !.list = list,
                                  !.eff = eff[t]])

-----------------------------------------------------------------------------
\* NewWalletService: empty maps, an empty log, an empty lock table
EmptyMap == [id \in {} |-> 0]

Init ==
    /\ users = EmptyMap
    /\ wallets = EmptyMap
    /\ walletMu = EmptyMap
    /\ transactions = <<>>
    /\ mu = RWMutexZero
    /\ userLocks = EmptyMap
    /\ pc = [t \in Threads |-> "idle"]
    /\ call = [t \in Threads |-> NoCall]
    /\ eff = [t \in Threads |-> NoEff]
    /\ returned = NoReturn
    /\ okCreates = [id \in UserIDs |-> 0]
    /\ now = 0
    /\ snapshot = NoSnapshot

-----------------------------------------------------------------------------
(* CreateUser *)

\* the call, up to ws.mu.Lock()
CreateUserCall(t, userID, name, email) ==
    /\ Enter(t, [NoCall EXCEPT !.op = "CreateUser", !.userID = userID,
                               !.name = name, !.email = email], "cu_Lock", NoEff)
    /\ UNCHANGED <<shared, okCreates>>

\* ws.mu.Lock(): the writer announces itself
CreateUserLock(t) ==
    /\ pc[t] = "cu_Lock"
    /\ CanAnnounceLock(mu)
    /\ mu' = LockAnnounced(mu, t)
    /\ Step(t, "cu_body", eff[t])
    /\ UNCHANGED <<users, wallets, walletMu, transactions, userLocks, okCreates>>

\* a slip: the test for an existing user left out
UserExistsUnchecked(registered, userID) == FALSE

\* a slip: the test taken for passed whatever the map holds
UserExistsAlways(registered, userID) == TRUE

\* _, exists := ws.users[userID]
UserExists(registered, userID) == userID \in registered

\* the body under ws.mu, and the deferred ws.mu.Unlock()
CreateUserBody(t) ==
    /\ pc[t] = "cu_body"
    /\ CanLock(mu, t)
    /\ LET userID == call[t].userID IN
       IF UserExists(DOMAIN users, userID)
       THEN /\ Return(t, ErrUserAlreadyExists, 0, eff[t])
            /\ UNCHANGED <<users, wallets, walletMu, okCreates>>
       ELSE /\ users' = (userID :> [ID |-> userID, Name |-> call[t].name,
                                    Email |-> call[t].email]) @@ users
            /\ wallets' = (userID :> 0) @@ wallets
            /\ walletMu' = (userID :> RWMutexZero) @@ walletMu
            /\ okCreates' = [okCreates EXCEPT ![userID] = @ + 1]
            /\ Return(t, Nil, 0, eff[t])
    /\ mu' = Unlocked(mu)
    /\ UNCHANGED <<transactions, userLocks>>

CreateUser(t) == CreateUserLock(t) \/ CreateUserBody(t)

-----------------------------------------------------------------------------
(* recordTransaction, as called by Deposit, Withdraw and Transfer *)

\* ws.mu.Lock() in recordTransaction: the writer announces itself
recordTransactionLock(t) ==
    /\ pc[t] = "rec_Lock"
    /\ CanAnnounceLock(mu)
    /\ mu' = LockAnnounced(mu, t)
    /\ Step(t, "rec_append", eff[t])
    /\ UNCHANGED <<users, wallets, walletMu, transactions, userLocks, okCreates>>

\* the append under ws.mu and the deferred ws.mu.Unlock(); then the caller
\* returns nil
recordTransaction(t, tx) ==
    /\ pc[t] = "rec_append"
    /\ CanLock(mu, t)
    /\ transactions' = Appended(transactions, tx)
    /\ mu' = Unlocked(mu)
    /\ Return(t, Nil, 0, [eff[t] EXCEPT !.log = @ + 1])

-----------------------------------------------------------------------------
(* Deposit *)

\* the call: the amount test, then ws.userLocks.getLock(userID)
DepositCall(t, userID, amount) ==
    LET c == [NoCall EXCEPT !.op = "Deposit", !.userID = userID, !.amount = amount] IN
    /\ IF InvalidAmount(amount)
       THEN /\ Reject(t, c, ErrInvalidAmount)
            /\ UNCHANGED userLocks
       ELSE /\ MayStartMutator
            /\ userLocks' = getLock(userLocks, userID)
            /\ Enter(t, c, "dep_userLock", [NoEff EXCEPT !.getLocks = 1])
    /\ UNCHANGED <<users, wallets, walletMu, transactions, mu, okCreates>>

\* userLock.Lock()
DepositUserLock(t) ==
    /\ pc[t] = "dep_userLock"
    /\ MutexFree(call[t].userID)
    /\ userLocks' = [userLocks EXCEPT ![call[t].userID] = t]
    /\ Step(t, "dep_lookup", [eff[t] EXCEPT !.locks = @ + 1])
    /\ UNCHANGED <<users, wallets, walletMu, transactions, mu, okCreates>>

\* ws.mu.RLock(); wallet, exists := ws.wallets[userID]; ws.mu.RUnlock();
\* and, for an unknown id, the return with the deferred userLock.Unlock()
DepositLookup(t) ==
    /\ pc[t] = "dep_lookup"
    /\ CanRLock(mu)
    /\ LET userID == call[t].userID IN
       IF userID \notin DOMAIN wallets
       THEN /\ userLocks' = [userLocks EXCEPT ![userID] = NoThread]
            /\ Return(t, ErrUserNotFound, 0, eff[t])
       ELSE /\ Step(t, "dep_walletLock", [eff[t] EXCEPT !.sFrom = wallets[userID]])
            /\ UNCHANGED userLocks
    /\ UNCHANGED <<users, wallets, walletMu, transactions, mu, okCreates>>

\* wallet.mu.Lock(): the writer announces itself
DepositWalletLock(t) ==
    /\ pc[t] = "dep_walletLock"
    /\ CanAnnounceLock(walletMu[call[t].userID])
    /\ walletMu' = [walletMu EXCEPT ![call[t].userID] = LockAnnounced(@, t)]
    /\ Step(t, "dep_add", eff[t])
    /\ UNCHANGED <<users, wallets, transactions, mu, userLocks, okCreates>>

\* wallet.Balance = wallet.Balance.Add(decimalAmount); wallet.mu.Unlock();
\* then tx := &Transaction{ID: generateTransactionID(), ...}
DepositAdd(t) ==
    /\ pc[t] = "dep_add"
    /\ call[t].op = "Deposit"
    /\ LET userID == call[t].userID
           new == Add(wallets[userID], call[t].amount) IN
       /\ CanLock(walletMu[userID], t)
       /\ wallets' = [wallets EXCEPT ![userID] = new]
       /\ walletMu' = [walletMu EXCEPT ![userID] = Unlocked(@)]
       /\ Step(t, "rec_Lock", [eff[t] EXCEPT !.locks = @ + 1, !.writes = @ + 1,
                                             !.dFrom = @ + new - wallets[userID],
                                             !.txID = generateTransactionID(now)])
    /\ UNCHANGED <<users, transactions, mu, userLocks, okCreates>>

\* recordTransaction(tx), return nil, and the deferred userLock.Unlock()
DepositRecord(t) ==
    /\ call[t].op = "Deposit"
    /\ recordTransaction(t, Tx(eff[t].txID, call[t].userID, call[t].userID, call[t].amount,
                              TransactionDeposit))
    /\ userLocks' = [userLocks EXCEPT ![call[t].userID] = NoThread]
    /\ UNCHANGED <<users, wallets, walletMu, okCreates>>

Deposit(t) ==
    \/ DepositUserLock(t)
    \/ DepositLookup(t)
    \/ DepositWalletLock(t)
    \/ DepositAdd(t)
    \/ (call[t].op = "Deposit" /\ recordTransactionLock(t))
    \/ DepositRecord(t)

-----------------------------------------------------------------------------
(* decimal.Decimal: an integer value and a power of ten, value * 10^exp *)

Decimal(value, exp) == [value |-> value, exp |-> exp]

\* decimal.Zero, and decimal.NewFromFloat(0.0)
DecimalZero == Decimal(0, 0)

RECURSIVE Pow10(_)
Pow10(n) == IF n <= 0 THEN 1 ELSE 10 * Pow10(n - 1)

MinExp(d1, d2) == IF d1.exp < d2.exp THEN d1.exp ELSE d2.exp

\* the value of d at the smaller exponent exp: no digit is lost
Rescaled(d, exp) == d.value * Pow10(d.exp - exp)

\* a slip: the two values added as they are, whatever their exponents
DecimalAddUnscaled(d1, d2) == Decimal(d1.value + d2.value, MinExp(d1, d2))

\* Decimal.Add: both brought to the smaller exponent, the values added
DecimalAdd(d1, d2) ==
    LET exp == MinExp(d1, d2) IN Decimal(Rescaled(d1, exp) + Rescaled(d2, exp), exp)

\* Decimal.Equal: equal values at the smaller exponent
DecimalEqual(d1, d2) ==
    LET exp == MinExp(d1, d2) IN Rescaled(d1, exp) = Rescaled(d2, exp)

\* amount.LessThanOrEqual(decimal.Zero)
InvalidDecimalAmount(amount) == amount.value <= 0

-----------------------------------------------------------------------------
(* DepositDecimal: Deposit without the conversion from float64; it shares   *)
(* with Deposit the steps that do no arithmetic                             *)

\* the call: the amount test, then ws.userLocks.getLock(userID)
DepositDecimalCall(t, userID, amount) ==
    LET c == [NoCall EXCEPT !.op = "DepositDecimal", !.userID = userID, !.amount = amount] IN
    /\ IF InvalidDecimalAmount(amount)
       THEN /\ Reject(t, c, ErrInvalidAmount)
            /\ UNCHANGED userLocks
       ELSE /\ MayStartMutator
            /\ userLocks' = getLock(userLocks, userID)
            /\ Enter(t, c, "dep_userLock", [NoEff EXCEPT !.getLocks = 1])
    /\ UNCHANGED <<users, wallets, walletMu, transactions, mu, okCreates>>

\* wallet.Balance = wallet.Balance.Add(amount); wallet.mu.Unlock(); then
\* tx := &Transaction{ID: generateTransactionID(), ...}
DepositDecimalAdd(t) ==
    /\ pc[t] = "dep_add"
    /\ call[t].op = "DepositDecimal"
    /\ LET userID == call[t].userID IN
       /\ CanLock(walletMu[userID], t)
       /\ wallets' = [wallets EXCEPT ![userID] = DecimalAdd(@, call[t].amount)]
       /\ walletMu' = [walletMu EXCEPT ![userID] = Unlocked(@)]
       /\ Step(t, "rec_Lock", [eff[t] EXCEPT !.locks = @ + 1, !.writes = @ + 1,
                                             !.txID = generateTransactionID(now)])
    /\ UNCHANGED <<users, transactions, mu, userLocks, okCreates>>

\* recordTransaction(tx), return nil, and the deferred userLock.Unlock()
DepositDecimalRecord(t) ==
    /\ call[t].op = "DepositDecimal"
    /\ recordTransaction(t, Tx(eff[t].txID, call[t].userID, call[t].userID, call[t].amount,
                              TransactionDeposit))
    /\ userLocks' = [userLocks EXCEPT ![call[t].userID] = NoThread]
    /\ UNCHANGED <<users, wallets, walletMu, okCreates>>

DepositDecimal(t) ==
    \/ DepositUserLock(t)
    \/ DepositLookup(t)
    \/ DepositWalletLock(t)
    \/ DepositDecimalAdd(t)
    \/ (call[t].op = "DepositDecimal" /\ recordTransactionLock(t))
    \/ DepositDecimalRecord(t)

-----------------------------------------------------------------------------
(* Withdraw *)

\* the call: the amount test, then ws.userLocks.getLock(userID)
WithdrawCall(t, userID, amount) ==
    LET c == [NoCall EXCEPT !.op = "Withdraw", !.userID = userID, !.amount = amount] IN
    /\ IF InvalidAmount(amount)
       THEN /\ Reject(t, c, ErrInvalidAmount)
            /\ UNCHANGED userLocks
       ELSE /\ MayStartMutator
            /\ userLocks' = getLock(userLocks, userID)
            /\ Enter(t, c, "wd_userLock", [NoEff EXCEPT !.getLocks = 1])
    /\ UNCHANGED <<users, wallets, walletMu, transactions, mu, okCreates>>

\* userLock.Lock()
WithdrawUserLock(t) ==
    /\ pc[t] = "wd_userLock"
    /\ MutexFree(call[t].userID)
    /\ userLocks' = [userLocks EXCEPT ![call[t].userID] = t]
    /\ Step(t, "wd_lookup", [eff[t] EXCEPT !.locks = @ + 1])
    /\ UNCHANGED <<users, wallets, walletMu, transactions, mu, okCreates>>

\* ws.mu.RLock(); wallet, exists := ws.wallets[userID]; ws.mu.RUnlock();
\* and, for an unknown id, the return with the deferred userLock.Unlock()
WithdrawLookup(t) ==
    /\ pc[t] = "wd_lookup"
    /\ CanRLock(mu)
    /\ LET userID == call[t].userID IN
       IF userID \notin DOMAIN wallets
       THEN /\ userLocks' = [userLocks EXCEPT ![userID] = NoThread]
            /\ Return(t, ErrUserNotFound, 0, eff[t])
       ELSE /\ Step(t, "wd_walletLock", [eff[t] EXCEPT !.sFrom = wallets[userID]])
            /\ UNCHANGED userLocks
    /\ UNCHANGED <<users, wallets, walletMu, transactions, mu, okCreates>>

\* wallet.mu.Lock(): the writer announces itself
WithdrawWalletLock(t) ==
    /\ pc[t] = "wd_walletLock"
    /\ CanAnnounceLock(walletMu[call[t].userID])
    /\ walletMu' = [walletMu EXCEPT ![call[t].userID] = LockAnnounced(@, t)]
    /\ Step(t, "wd_check", eff[t])
    /\ UNCHANGED <<users, wallets, transactions, mu, userLocks, okCreates>>

\* wallet.mu is held; the balance test, and on failure the return with the
\* deferred wallet.mu.Unlock() and userLock.Unlock()
WithdrawCheck(t) ==
    /\ pc[t] = "wd_check"
    /\ LET userID == call[t].userID
           e == [eff[t] EXCEPT !.locks = @ + 1] IN
       /\ CanLock(walletMu[userID], t)
       /\ IF Insufficient(wallets[userID], call[t].amount)
          THEN /\ walletMu' = [walletMu EXCEPT ![userID] = Unlocked(@)]
               /\ userLocks' = [userLocks EXCEPT ![userID] = NoThread]
               /\ Return(t, ErrInsufficientBalance, 0, e)
          ELSE /\ Step(t, "wd_sub", e)
               /\ UNCHANGED <<walletMu, userLocks>>
    /\ UNCHANGED <<users, wallets, transactions, mu, okCreates>>

\* wallet.Balance = wallet.Balance.Sub(decimalAmount), wallet.mu still held;
\* then tx := &Transaction{ID: generateTransactionID(), ...}
WithdrawSub(t) ==
    /\ pc[t] = "wd_sub"
    /\ LET userID == call[t].userID
           new == Sub(wallets[userID], call[t].amount) IN
       /\ wallets' = [wallets EXCEPT ![userID] = new]
       /\ Step(t, "rec_Lock", [eff[t] EXCEPT !.writes = @ + 1,
                                             !.dFrom = @ + new - wallets[userID],
                                             !.txID = generateTransactionID(now)])
    /\ UNCHANGED <<users, walletMu, transactions, mu, userLocks, okCreates>>

\* recordTransaction(tx), return nil, and the deferred wallet.mu.Unlock() and
\* userLock.Unlock()
WithdrawRecord(t) ==
    /\ call[t].op = "Withdraw"
    /\ recordTransaction(t, Tx(eff[t].txID, call[t].userID, call[t].userID, call[t].amount,
                              TransactionWithdraw))
    /\ walletMu' = [walletMu EXCEPT ![call[t].userID] = Unlocked(@)]
    /\ userLocks' = [userLocks EXCEPT ![call[t].userID] = NoThread]
    /\ UNCHANGED <<users, wallets, okCreates>>

Withdraw(t) ==
    \/ WithdrawUserLock(t)
    \/ WithdrawLookup(t)
    \/ WithdrawWalletLock(t)
    \/ WithdrawCheck(t)
    \/ WithdrawSub(t)
    \/ (call[t].op = "Withdraw" /\ recordTransactionLock(t))
    \/ WithdrawRecord(t)

-----------------------------------------------------------------------------
(* Transfer *)

\* the call: the amount test and the same-user test
TransferCall(t, fromUserID, toUserID, amount) ==
    LET c == [NoCall EXCEPT !.op = "Transfer", !.userID = fromUserID,
                            !.toUserID = toUserID, !.amount = amount] IN
    /\ IF InvalidAmount(amount)
       THEN Reject(t, c, ErrInvalidAmount)
       ELSE IF SameUser(fromUserID, toUserID)
            THEN Reject(t, c, ErrSameUserTransfer)
            ELSE MayStartMutator /\ Enter(t, c, "tr_lookup", NoEff)
    /\ UNCHANGED <<shared, okCreates>>

\* a slip: && for ||
NeitherExists(fromExists, toExists) == ~fromExists /\ ~toExists

\* !fromExists || !toExists
NotBothExist(fromExists, toExists) == ~fromExists \/ ~toExists

\* ws.mu.RLock(); the two map reads; ws.mu.RUnlock(); the return for an
\* unknown id; otherwise getOrderedLocks (two getLock calls)
TransferLookup(t) ==
    /\ pc[t] = "tr_lookup"
    /\ CanRLock(mu)
    /\ LET from == call[t].userID
           to == call[t].toUserID IN
       IF NotBothExist(from \in DOMAIN wallets, to \in DOMAIN wallets)
       THEN /\ Return(t, ErrUserNotFound, 0, eff[t])
            /\ UNCHANGED userLocks
       ELSE /\ userLocks' = getLock(getLock(userLocks, from), to)
            /\ Step(t, "tr_firstLock", [eff[t] EXCEPT !.getLocks = @ + 2])
    /\ UNCHANGED <<users, wallets, walletMu, transactions, mu, okCreates>>

firstLock(t) == getOrderedLocks(call[t].userID, call[t].toUserID)[1]
secondLock(t) == getOrderedLocks(call[t].userID, call[t].toUserID)[2]

\* firstLock.Lock()
TransferFirstLock(t) ==
    /\ pc[t] = "tr_firstLock"
    /\ MutexFree(firstLock(t))
    /\ userLocks' = [userLocks EXCEPT ![firstLock(t)] = t]
    /\ Step(t, "tr_secondLock", [eff[t] EXCEPT !.locks = @ + 1])
    /\ UNCHANGED <<users, wallets, walletMu, transactions, mu, okCreates>>

\* secondLock.Lock()
TransferSecondLock(t) ==
    /\ pc[t] = "tr_secondLock"
    /\ MutexFree(secondLock(t))
    /\ userLocks' = [userLocks EXCEPT ![secondLock(t)] = t]
    /\ Step(t, "tr_fromLock", [eff[t] EXCEPT !.locks = @ + 1,
                                             !.sFrom = wallets[call[t].userID],
                                             !.sTo = wallets[call[t].toUserID]])
    /\ UNCHANGED <<users, wallets, walletMu, transactions, mu, okCreates>>

\* fromWallet.mu.Lock(): the writer announces itself
TransferFromLock(t) ==
    /\ pc[t] = "tr_fromLock"
    /\ CanAnnounceLock(walletMu[call[t].userID])
    /\ walletMu' = [walletMu EXCEPT ![call[t].userID] = LockAnnounced(@, t)]
    /\ Step(t, "tr_check", eff[t])
    /\ UNCHANGED <<users, wallets, transactions, mu, userLocks, okCreates>>

\* fromWallet.mu is held; the balance test, and on failure
\* fromWallet.mu.Unlock() and the return with the two deferred Unlock()s
TransferCheck(t) ==
    /\ pc[t] = "tr_check"
    /\ LET from == call[t].userID
           e == [eff[t] EXCEPT !.locks = @ + 1] IN
       /\ CanLock(walletMu[from], t)
       /\ IF Insufficient(wallets[from], call[t].amount)
          THEN /\ walletMu' = [walletMu EXCEPT ![from] = Unlocked(@)]
               /\ userLocks' = [userLocks EXCEPT ![firstLock(t)] = NoThread,
                                                 ![secondLock(t)] = NoThread]
               /\ Return(t, ErrInsufficientBalance, 0, e)
          ELSE /\ Step(t, "tr_sub", e)
               /\ UNCHANGED <<walletMu, userLocks>>
    /\ UNCHANGED <<users, wallets, transactions, mu, okCreates>>

\* a slip: fromWallet.mu kept until the transfer returns
fromWalletKept(m) == m

\* fromWallet.mu.Unlock() after the debit
fromWalletUnlocked(m) == Unlocked(m)

\* fromWallet.Balance = fromWallet.Balance.Sub(decimalAmount); fromWallet.mu.Unlock()
TransferSub(t) ==
    /\ pc[t] = "tr_sub"
    /\ LET from == call[t].userID
           new == Sub(wallets[from], call[t].amount) IN
       /\ wallets' = [wallets EXCEPT ![from] = new]
       /\ walletMu' = [walletMu EXCEPT ![from] = fromWalletUnlocked(@)]
       /\ Step(t, "tr_toLock", [eff[t] EXCEPT !.writes = @ + 1,
                                              !.dFrom = @ + new - wallets[from]])
    /\ UNCHANGED <<users, transactions, mu, userLocks, okCreates>>

\* toWallet.mu.Lock(): the writer announces itself
TransferToLock(t) ==
    /\ pc[t] = "tr_toLock"
    /\ CanAnnounceLock(walletMu[call[t].toUserID])
    /\ walletMu' = [walletMu EXCEPT ![call[t].toUserID] = LockAnnounced(@, t)]
    /\ Step(t, "tr_add", eff[t])
    /\ UNCHANGED <<users, wallets, transactions, mu, userLocks, okCreates>>

\* toWallet.Balance = toWallet.Balance.Add(decimalAmount); toWallet.mu.Unlock();
\* then tx := &Transaction{ID: generateTransactionID(), ...}
TransferAdd(t) ==
    /\ pc[t] = "tr_add"
    /\ LET to == call[t].toUserID
           new == Add(wallets[to], call[t].amount) IN
       /\ CanLock(walletMu[to], t)
       /\ wallets' = [wallets EXCEPT ![to] = new]
       /\ walletMu' = [walletMu EXCEPT ![to] = Unlocked(@)]
       /\ Step(t, "rec_Lock", [eff[t] EXCEPT !.locks = @ + 1, !.writes = @ + 1,
                                             !.dTo = @ + new - wallets[to],
                                             !.txID = generateTransactionID(now)])
    /\ UNCHANGED <<users, transactions, mu, userLocks, okCreates>>

\* recordTransaction(tx), return nil, and the two deferred Unlock()s
TransferRecord(t) ==
    /\ call[t].op = "Transfer"
    /\ recordTransaction(t, Tx(eff[t].txID, call[t].userID, call[t].toUserID, call[t].amount,
                              TransactionTransfer))
    /\ userLocks' = [userLocks EXCEPT ![firstLock(t)] = NoThread,
                                      ![secondLock(t)] = NoThread]
    /\ UNCHANGED <<users, wallets, walletMu, okCreates>>

Transfer(t) ==
    \/ TransferLookup(t)
    \/ TransferFirstLock(t)
    \/ TransferSecondLock(t)
    \/ TransferFromLock(t)
    \/ TransferCheck(t)
    \/ TransferSub(t)
    \/ TransferToLock(t)
    \/ TransferAdd(t)
    \/ (call[t].op = "Transfer" /\ recordTransactionLock(t))
    \/ TransferRecord(t)

-----------------------------------------------------------------------------
(* GetBalance / GetBalanceDecimal *)

GetBalanceCall(t, userID) ==
    /\ Enter(t, [NoCall EXCEPT !.op = "GetBalance", !.userID = userID], "gb_RLock", NoEff)
    /\ UNCHANGED <<shared, okCreates>>

\* ws.mu.RLock(); the map read; for an unknown id the return with the
\* deferred ws.mu.RUnlock()
GetBalanceRLock(t) ==
    /\ pc[t] = "gb_RLock"
    /\ CanRLock(mu)
    /\ IF call[t].userID \notin DOMAIN wallets
       THEN /\ Return(t, ErrUserNotFound, 0, eff[t])
            /\ UNCHANGED mu
       ELSE /\ mu' = RLocked(mu, t)
            /\ Step(t, "gb_walletRLock", eff[t])
    /\ UNCHANGED <<users, wallets, walletMu, transactions, userLocks, okCreates>>

\* wallet.mu.RLock(), ws.mu still read-locked
GetBalanceWalletRLock(t) ==
    /\ pc[t] = "gb_walletRLock"
    /\ CanRLock(walletMu[call[t].userID])
    /\ walletMu' = [walletMu EXCEPT ![call[t].userID] = RLocked(@, t)]
    /\ Step(t, "gb_return", [eff[t] EXCEPT !.locks = @ + 1])
    /\ UNCHANGED <<users, wallets, transactions, mu, userLocks, okCreates>>

\* return wallet.Balance, nil; the deferred wallet.mu.RUnlock(), ws.mu.RUnlock()
GetBalanceReturn(t) ==
    /\ pc[t] = "gb_return"
    /\ walletMu' = [walletMu EXCEPT ![call[t].userID] = RUnlocked(@, t)]
    /\ mu' = RUnlocked(mu, t)
    /\ Return(t, Nil, wallets[call[t].userID], eff[t])
    /\ UNCHANGED <<users, wallets, transactions, userLocks, okCreates>>

GetBalance(t) == GetBalanceRLock(t) \/ GetBalanceWalletRLock(t) \/ GetBalanceReturn(t)

-----------------------------------------------------------------------------
(* GetTransactionHistory *)

GetTransactionHistoryCall(t, userID) ==
    /\ Enter(t, [NoCall EXCEPT !.op = "GetTransactionHistory", !.userID = userID],
             "gth_RLock", NoEff)
    /\ UNCHANGED <<shared, okCreates>>

\* a slip: the entries a user sent, without those the user received
SentBy(tx, userID) == tx.FromUserID = userID

\* tx.FromUserID == userID || tx.ToUserID == userID
NamesUser(tx, userID) == tx.FromUserID = userID \/ tx.ToUserID = userID

\* the loop over ws.transactions, appending the entries that name userID
RECURSIVE userTransactions(_, _)
userTransactions(txs, userID) ==
    IF txs = <<>> THEN <<>>
    ELSE (IF NamesUser(Head(txs), userID) THEN <<Head(txs)>> ELSE <<>>)
         \o userTransactions(Tail(txs), userID)

\* ws.mu.RLock(); the test of ws.users; the loop; the deferred ws.mu.RUnlock()
\* (no call that blocks lies between RLock and RUnlock)
GetTransactionHistoryBody(t) ==
    /\ pc[t] = "gth_RLock"
    /\ CanRLock(mu)
    /\ IF ~UserExists(DOMAIN users, call[t].userID)
       THEN ReturnList(t, ErrUserNotFound, <<>>)
       ELSE ReturnList(t, Nil, userTransactions(transactions, call[t].userID))
    /\ UNCHANGED <<shared, okCreates, snapshot>>

GetTransactionHistory(t) == GetTransactionHistoryBody(t)

-----------------------------------------------------------------------------
(* GetAllUsers *)

GetAllUsersCall(t) ==
    /\ Enter(t, [NoCall EXCEPT !.op = "GetAllUsers"], "gau_RLock", NoEff)
    /\ UNCHANGED <<shared, okCreates>>

\* a nil *User
NilUser == "nil"

\* a slip: make([]*User, len(ws.users)), a slice of that many nil pointers
NewSliceOfLen(n) == [i \in 1..n |-> NilUser]

\* make([]*User, 0, len(ws.users)): an empty slice
NewSlice(n) == <<>>

\* for _, user := range ws.users: every key once, in an order Go does not fix
RangeOrders(m) ==
    {o \in [1..Cardinality(DOMAIN m) -> DOMAIN m] : \A i, j \in DOMAIN o : o[i] = o[j] => i = j}

\* what the elements of a slice of *User point to (a User lives in ws.users
\* under its ID from its creation on)
Deref(ptrs) == [i \in DOMAIN ptrs |-> IF ptrs[i] = NilUser THEN NilUser ELSE users[ptrs[i]]]

\* ws.mu.RLock(); the new slice; the loop appending each *User of the map;
\* the deferred ws.mu.RUnlock()
GetAllUsersBody(t) ==
    /\ pc[t] = "gau_RLock"
    /\ CanRLock(mu)
    /\ \E o \in RangeOrders(users) :
          LET ptrs == NewSlice(Cardinality(DOMAIN users)) \o o IN
          /\ ReturnList(t, Nil, ptrs)
          /\ snapshot' = [ptrs |-> ptrs, seen |-> Deref(ptrs)]
    /\ UNCHANGED <<shared, okCreates>>

GetAllUsers(t) == GetAllUsersBody(t)

-----------------------------------------------------------------------------
(* The clock *)

\* time passes
Tick ==
    /\ now < MaxClock
    /\ now' = now + 1
    /\ returned' = NoReturn
    /\ UNCHANGED <<shared, pc, call, eff, okCreates, snapshot>>

-----------------------------------------------------------------------------
(* The program: any thread may make any call, or go on with its call *)

Calls(t) ==
    \/ \E id \in UserIDs, n \in Names, e \in Emails : CreateUserCall(t, id, n, e)
    \/ \E id \in UserIDs, a \in DepositAmounts : DepositCall(t, id, a)
    \/ \E id \in UserIDs, a \in Amounts : WithdrawCall(t, id, a)
    \/ \E f \in UserIDs, o \in UserIDs, a \in Amounts : TransferCall(t, f, o, a)
    \/ \E id \in UserIDs : GetBalanceCall(t, id)

\* the steps of the calls in progress
Work(t) == CreateUser(t) \/ Deposit(t) \/ Withdraw(t) \/ Transfer(t) \/ GetBalance(t)

Next == \E t \in Threads : Calls(t) \/ Work(t)

Spec == Init /\ [][Next]_vars

-----------------------------------------------------------------------------
(* Transfers and deposits alone, over two registered accounts, by three      *)
(* threads, with the scheduling Go gives: a goroutine that can run does run, *)
(* and a goroutine waiting for a mutex that is released again and again      *)
(* gets it (sync.Mutex hands the lock to a starving waiter).                 *)

ThreadsTD == {"t1", "t2", "t3"}

\* the service after CreateUser("a", ...) and CreateUser("b", ...)
InitTD ==
    /\ users = [id \in UserIDs |-> [ID |-> id, Name |-> "n1", Email |-> "e1"]]
    /\ wallets = [id \in UserIDs |-> 0]
    /\ walletMu = [id \in UserIDs |-> RWMutexZero]
    /\ transactions = <<>>
    /\ mu = RWMutexZero
    /\ userLocks = EmptyMap
    /\ pc = [t \in ThreadsTD |-> "idle"]
    /\ call = [t \in ThreadsTD |-> NoCall]
    /\ eff = [t \in ThreadsTD |-> NoEff]
    /\ returned = NoReturn
    /\ okCreates = [id \in UserIDs |-> 1]
    /\ now = 0
    /\ snapshot = NoSnapshot

CallsTD(t) ==
    \/ \E id \in UserIDs : DepositCall(t, id, 1)
    \/ \E f \in UserIDs, o \in UserIDs : TransferCall(t, f, o, 1)

WorkTD(t) == Deposit(t) \/ Transfer(t)

NextTD == \E t \in ThreadsTD : CallsTD(t) \/ WorkTD(t)

FairTD == InitTD /\ [][NextTD]_vars /\ \A t \in ThreadsTD : SF_vars(WorkTD(t))

-----------------------------------------------------------------------------
(* Account creation with differing metadata, next to deposits and reads *)

NamesCreate == {"n1", "n2"}
EmailsCreate == {"e1", "e2"}

CallsCreate(t) ==
    \/ \E id \in UserIDs, n \in NamesCreate, e \in EmailsCreate : CreateUserCall(t, id, n, e)
    \/ \E id \in UserIDs : DepositCall(t, id, 1)
    \/ \E id \in UserIDs : GetBalanceCall(t, id)

WorkCreate(t) == CreateUser(t) \/ Deposit(t) \/ GetBalance(t)

NextCreate == \E t \in Threads : CallsCreate(t) \/ WorkCreate(t)

SpecCreate == Init /\ [][NextCreate]_vars

-----------------------------------------------------------------------------
(* Every operation of the service, with amounts that pass the amount test *)

CallsAll(t) ==
    \/ \E id \in UserIDs, n \in Names, e \in Emails : CreateUserCall(t, id, n, e)
    \/ \E id \in UserIDs : DepositCall(t, id, 1)
    \/ \E id \in UserIDs : WithdrawCall(t, id, 1)
    \/ \E f \in UserIDs, o \in UserIDs : TransferCall(t, f, o, 1)
    \/ \E id \in UserIDs : GetBalanceCall(t, id)
    \/ \E id \in UserIDs : GetTransactionHistoryCall(t, id)
    \/ GetAllUsersCall(t)

WorkAll(t) == Work(t) \/ GetTransactionHistory(t) \/ GetAllUsers(t)

NextAll == \E t \in Threads : CallsAll(t) \/ WorkAll(t)

SpecAll == Init /\ [][NextAll]_vars

-----------------------------------------------------------------------------
(* Deposits and transfers over two registered accounts while time passes *)

InitClock ==
    /\ users = [id \in UserIDs |-> [ID |-> id, Name |-> "n1", Email |-> "e1"]]
    /\ wallets = [id \in UserIDs |-> 0]
    /\ walletMu = [id \in UserIDs |-> RWMutexZero]
    /\ transactions = <<>>
    /\ mu = RWMutexZero
    /\ userLocks = EmptyMap
    /\ pc = [t \in Threads |-> "idle"]
    /\ call = [t \in Threads |-> NoCall]
    /\ eff = [t \in Threads |-> NoEff]
    /\ returned = NoReturn
    /\ okCreates = [id \in UserIDs |-> 1]
    /\ now = 0
    /\ snapshot = NoSnapshot

CallsClock(t) ==
    \/ \E id \in UserIDs : DepositCall(t, id, 1)
    \/ \E f \in UserIDs, o \in UserIDs : TransferCall(t, f, o, 1)

NextClock == Tick \/ \E t \in Threads : CallsClock(t) \/ WorkTD(t)

SpecClock == InitClock /\ [][NextClock]_vars

-----------------------------------------------------------------------------
(* Decimal deposits into a fresh account, and reads of its balance *)

\* 0.1, 0.2, 0.01, 0.333, 0.667 and 1 as decimal.NewFromFloat gives them, and
\* two amounts that do not pass the amount test
DecimalAmounts ==
    {Decimal(1, -1), Decimal(2, -1), Decimal(1, -2), Decimal(333, -3), Decimal(667, -3),
     Decimal(1, 0), DecimalZero, Decimal(-1, -1)}

\* the service after CreateUser("a", ...): a balance of decimal.NewFromFloat(0.0)
InitDecimal ==
    /\ users = [id \in {"a"} |-> [ID |-> id, Name |-> "n1", Email |-> "e1"]]
    /\ wallets = [id \in {"a"} |-> DecimalZero]
    /\ walletMu = [id \in {"a"} |-> RWMutexZero]
    /\ transactions = <<>>
    /\ mu = RWMutexZero
    /\ userLocks = EmptyMap
    /\ pc = [t \in Threads |-> "idle"]
    /\ call = [t \in Threads |-> NoCall]
    /\ eff = [t \in Threads |-> NoEff]
    /\ returned = NoReturn
    /\ okCreates = [id \in UserIDs |-> IF id = "a" THEN 1 ELSE 0]
    /\ now = 0
    /\ snapshot = NoSnapshot

CallsDecimal(t) ==
    \/ \E id \in UserIDs, a \in DecimalAmounts : DepositDecimalCall(t, id, a)
    \/ \E id \in UserIDs : GetBalanceCall(t, id)

WorkDecimal(t) == DepositDecimal(t) \/ GetBalance(t)

NextDecimal == \E t \in Threads : CallsDecimal(t) \/ WorkDecimal(t)

SpecDecimal == InitDecimal /\ [][NextDecimal]_vars

-----------------------------------------------------------------------------
(* Transfers and deposits over four registered accounts, by two threads *)

UserIDsDisjoint == {IdOrder[i] : i \in 1..Len(IdOrder)}

\* the service after CreateUser of "a", "b", "c" and "d"
InitDisjoint ==
    /\ users = [id \in UserIDsDisjoint |-> [ID |-> id, Name |-> "n1", Email |-> "e1"]]
    /\ wallets = [id \in UserIDsDisjoint |-> 0]
    /\ walletMu = [id \in UserIDsDisjoint |-> RWMutexZero]
    /\ transactions = <<>>
    /\ mu = RWMutexZero
    /\ userLocks = EmptyMap
    /\ pc = [t \in Threads |-> "idle"]
    /\ call = [t \in Threads |-> NoCall]
    /\ eff = [t \in Threads |-> NoEff]
    /\ returned = NoReturn
    /\ okCreates = [id \in UserIDsDisjoint |-> 1]
    /\ now = 0
    /\ snapshot = NoSnapshot

CallsDisjoint(t) ==
    \/ \E id \in UserIDsDisjoint : DepositCall(t, id, 1)
    \/ \E f \in UserIDsDisjoint, o \in UserIDsDisjoint : TransferCall(t, f, o, 1)

WorkDisjoint(t) == Deposit(t) \/ Transfer(t)

NextDisjoint == \E t \in Threads : CallsDisjoint(t) \/ WorkDisjoint(t)

SpecDisjoint == InitDisjoint /\ [][NextDisjoint]_vars

-----------------------------------------------------------------------------
(* Properties *)

Quiescent == \A t \in DOMAIN pc : Idle(t)

\* what the log says an account holds: deposits and incoming transfers, less
\* withdrawals and outgoing transfers
TxNet(tx, id) ==
    IF tx.Type = TransactionDeposit THEN (IF tx.ToUserID = id THEN tx.Amount ELSE 0)
    ELSE IF tx.Type = TransactionWithdraw THEN (IF tx.FromUserID = id THEN -tx.Amount ELSE 0)
    ELSE (IF tx.ToUserID = id THEN tx.Amount ELSE 0)
         - (IF tx.FromUserID = id THEN tx.Amount ELSE 0)

RECURSIVE LogNet(_, _)
LogNet(txs, id) ==
    IF txs = <<>> THEN 0 ELSE TxNet(Head(txs), id) + LogNet(Tail(txs), id)

\* C1: whenever no call is in progress, every account's balance equals the
\* net of its log entries (deposits and incoming transfers less withdrawals
\* and outgoing transfers): no update is lost
C1_BalanceIsLogNet ==
    Quiescent => \A id \in DOMAIN wallets : wallets[id] = LogNet(transactions, id)

C1_Witness ==
    /\ Quiescent
    /\ Len(transactions) >= 3
    /\ \E i \in 1..Len(transactions) : transactions[i].Type = TransactionTransfer
    /\ \E i \in 1..Len(transactions) : transactions[i].Type = TransactionWithdraw

\* C2: a Transfer that returned nil wrote -amount to the balance of fromUserID
\* and +amount to that of toUserID; the balances it leaves are those it found
\* when it held both user locks, less and plus the amount, and their sum is
\* the same
C2_TransferConserves ==
    (returned.call.op = "Transfer" /\ returned.err = Nil) =>
        LET from == returned.call.userID
            to == returned.call.toUserID
            amount == returned.call.amount
            e == returned.eff IN
        /\ e.dFrom = -amount
        /\ e.dTo = amount
        /\ wallets[from] = e.sFrom - amount
        /\ wallets[to] = e.sTo + amount
        /\ wallets[from] + wallets[to] = e.sFrom + e.sTo

C2_Witness ==
    /\ returned.call.op = "Transfer"
    /\ returned.err = Nil
    /\ \E t \in DOMAIN pc :
          /\ InProgress(t)
          /\ call[t].op \in {"Deposit", "Withdraw"}
          /\ call[t].userID \in {returned.call.userID, returned.call.toUserID}

\* the user mutex a thread is blocked on, if it is blocked on one
UserLockAwaited(t) ==
    IF pc[t] \in {"dep_userLock", "wd_userLock"} THEN {call[t].userID}
    ELSE IF pc[t] = "tr_firstLock" THEN {firstLock(t)}
    ELSE IF pc[t] = "tr_secondLock" THEN {secondLock(t)}
    ELSE {}

\* the wallet whose mutex a thread wants and cannot have while a writer has it
WalletWriterAwaited(t) ==
    IF pc[t] \in {"dep_walletLock", "wd_walletLock", "tr_fromLock", "gb_walletRLock"}
    THEN {call[t].userID}
    ELSE IF pc[t] = "tr_toLock" THEN {call[t].toUserID}
    ELSE {}

\* the wallet whose mutex a thread, the announced writer, has once the
\* readers have left
WalletReadersAwaited(t) ==
    IF pc[t] \in {"dep_add", "wd_check", "tr_check"} THEN {call[t].userID}
    ELSE IF pc[t] = "tr_add" THEN {call[t].toUserID}
    ELSE {}

\* t waits for a per-account lock (a user mutex or a wallet mutex) that u holds
WaitsOn(t, u) ==
    \/ \E id \in UserLockAwaited(t) : id \in DOMAIN userLocks /\ userLocks[id] = u
    \/ \E id \in WalletWriterAwaited(t) : walletMu[id].writer = u
    \/ \E id \in WalletReadersAwaited(t) : u \in walletMu[id].readers

\* a set of callers each of which waits for a per-account lock held by one of them
LockCycle == \E C \in SUBSET (DOMAIN pc) : C # {} /\ \A t \in C : \E u \in C : WaitsOn(t, u)

\* C3: concurrent Transfer calls in any direction over registered accounts,
\* mixed with Deposit calls, never form a cycle of callers each waiting for a
\* per-account lock another holds, and under fair scheduling every such call
\* returns
C3_TransfersNeverDeadlock ==
    /\ []~LockCycle
    /\ \A t \in ThreadsTD : (InProgress(t) ~> Idle(t))

\* a Transfer a -> b holds the lock of "a" while a Transfer b -> a and a
\* Deposit wait for it
C3_Witness ==
    \E t, u, d \in DOMAIN pc :
        /\ call[t].op = "Transfer" /\ call[t].userID = "a" /\ call[t].toUserID = "b"
        /\ call[u].op = "Transfer" /\ call[u].userID = "b" /\ call[u].toUserID = "a"
        /\ call[d].op = "Deposit" /\ pc[d] = "dep_userLock" /\ call[d].userID = "a"
        /\ pc[t] = "tr_secondLock"
        /\ pc[u] = "tr_firstLock"
        /\ WaitsOn(u, t)

\* C4 (as claimed): whenever calls are in progress, one of them can take its
\* next step, so no reachable state is a deadlock
C4_NoDeadlock ==
    (\E t \in DOMAIN pc : InProgress(t)) => \E t \in DOMAIN pc : InProgress(t) /\ ENABLED Work(t)

\* a Transfer that has debited fromUserID and not yet credited toUserID
Debited(t) == call[t].op = "Transfer" /\ pc[t] \in {"tr_toLock", "tr_add"}

\* C5 (as claimed): no GetBalance of a transfer's source returns while the
\* transfer has debited the source and not yet credited the destination
C5_NoPartialTransferObserved ==
    ~ \E t \in DOMAIN pc :
        /\ Debited(t)
        /\ returned.call.op = "GetBalance"
        /\ returned.err = Nil
        /\ returned.call.userID = call[t].userID
        /\ returned.val = wallets[call[t].userID]

\* C6: a Withdraw or Transfer that returned ErrInsufficientBalance found the
\* debited balance below the amount, wrote no balance and appended nothing;
\* the balances are those it found when it took its user lock(s)
C6_InsufficientChangesNothing ==
    (returned.err = ErrInsufficientBalance) =>
        LET c == returned.call
            e == returned.eff IN
        /\ c.op \in {"Withdraw", "Transfer"}
        /\ e.sFrom < c.amount
        /\ e.writes = 0 /\ e.dFrom = 0 /\ e.dTo = 0 /\ e.log = 0
        /\ wallets[c.userID] = e.sFrom
        /\ c.op = "Transfer" => wallets[c.toUserID] = e.sTo

C6_Witness ==
    /\ returned.err = ErrInsufficientBalance
    /\ returned.call.op = "Transfer"
    /\ returned.eff.sFrom = 1
    /\ Len(transactions) > 0

\* C7: no balance is ever negative, and between the balance test of a
\* Withdraw or Transfer and its subtraction the balance still covers the amount
C7_BalanceNeverNegative ==
    /\ \A id \in DOMAIN wallets : wallets[id] >= 0
    /\ \A t \in DOMAIN pc :
          pc[t] \in {"wd_sub", "tr_sub"} =>
              /\ wallets[call[t].userID] = eff[t].sFrom
              /\ wallets[call[t].userID] >= call[t].amount

\* a Withdraw is between its test and its subtraction while a Transfer that
\* would overdraw the same account waits for the account's lock
C7_Witness ==
    \E t, u \in DOMAIN pc :
        /\ call[t].op = "Withdraw" /\ pc[t] = "wd_sub"
        /\ call[u].op = "Transfer" /\ call[u].userID = call[t].userID
        /\ pc[u] \in {"tr_firstLock", "tr_secondLock"}
        /\ WaitsOn(u, t)
        /\ wallets[call[t].userID] < call[t].amount + call[u].amount

\* C8: Deposit, Withdraw and Transfer with a zero or negative amount return
\* ErrInvalidAmount having acquired no lock, called getLock or written
\* anything, and the step in which they return changes neither the balances,
\* the log, the lock table nor any lock; no call with such an amount gets
\* past the amount test
C8_InvalidAmountInv ==
    /\ (returned.call.op \in Mutators /\ returned.call.amount <= 0) =>
           (returned.err = ErrInvalidAmount /\ returned.eff = NoEff)
    /\ returned.err = ErrInvalidAmount => returned.call.amount <= 0
    /\ \A t \in DOMAIN pc : (InProgress(t) /\ call[t].op \in Mutators) => call[t].amount > 0

C8_InvalidAmount ==
    /\ []C8_InvalidAmountInv
    /\ [][returned'.err = ErrInvalidAmount => UNCHANGED shared]_vars

C8_Witness ==
    /\ returned.err = ErrInvalidAmount
    /\ returned.call.op = "Withdraw"
    /\ returned.call.amount = 0
    /\ returned.call.userID \in DOMAIN wallets
    /\ \E id \in UserIDs : id \notin DOMAIN userLocks

\* C9: for each id exactly one CreateUser returns nil, and it registers the
\* account with its own name and email and a zero balance; every other
\* CreateUser of that id returns ErrUserAlreadyExists and leaves the users,
\* the balances and the log as they are
C9_CreateInv ==
    /\ \A id \in UserIDs : okCreates[id] = (IF id \in DOMAIN users THEN 1 ELSE 0)
    /\ DOMAIN wallets = DOMAIN users
    /\ returned.call.op = "CreateUser" => returned.err \in {Nil, ErrUserAlreadyExists}

C9_CreateStep ==
    LET c == returned'.call IN
    (c.op = "CreateUser" /\ returned' # returned) =>
        IF returned'.err = Nil
        THEN /\ c.userID \notin DOMAIN users
             /\ users' = (c.userID :> [ID |-> c.userID, Name |-> c.name, Email |-> c.email])
                         @@ users
             /\ wallets' = (c.userID :> 0) @@ wallets
             /\ transactions' = transactions
        ELSE /\ c.userID \in DOMAIN users
             /\ UNCHANGED <<users, wallets, transactions>>

C9_ExactlyOneCreate == []C9_CreateInv /\ [][C9_CreateStep]_vars

\* a duplicate CreateUser with another name fails on an account that holds money
C9_Witness ==
    /\ returned.call.op = "CreateUser"
    /\ returned.err = ErrUserAlreadyExists
    /\ wallets[returned.call.userID] > 0
    /\ users[returned.call.userID].Name # returned.call.name
    /\ users[returned.call.userID].Email # returned.call.email

\* C10: a Transfer with a positive amount returns ErrSameUserTransfer when the
\* two ids are equal and ErrUserNotFound when one is not registered, in both
\* cases having acquired no per-account lock, made no getLock call, written
\* no balance and appended nothing, and the step in which it returns changes
\* neither the balances, the log, the lock table nor any lock; a Transfer that
\* goes past these tests names two different, registered ids
C10_TransferRejectsInv ==
    /\ (returned.call.op = "Transfer" /\ returned.call.amount > 0) =>
          LET c == returned.call
              e == returned.eff IN
          /\ c.userID = c.toUserID => returned.err = ErrSameUserTransfer
          /\ (c.userID # c.toUserID /\ ({c.userID, c.toUserID} \ DOMAIN wallets) # {})
                => returned.err = ErrUserNotFound
          /\ returned.err \in {ErrSameUserTransfer, ErrUserNotFound} =>
                (e.locks = 0 /\ e.getLocks = 0 /\ e.writes = 0 /\ e.log = 0)
    /\ \A t \in DOMAIN pc :
          (call[t].op = "Transfer" /\ InProgress(t)) =>
              /\ call[t].userID # call[t].toUserID
              /\ (eff[t].getLocks > 0 \/ eff[t].locks > 0) =>
                     {call[t].userID, call[t].toUserID} \subseteq DOMAIN wallets

C10_TransferRejectsEarly ==
    /\ []C10_TransferRejectsInv
    /\ [][(returned'.call.op = "Transfer"
           /\ returned'.err \in {ErrSameUserTransfer, ErrUserNotFound})
          => UNCHANGED shared]_vars

C10_Witness ==
    /\ returned.call.op = "Transfer"
    /\ returned.err = ErrUserNotFound
    /\ returned.call.userID \in DOMAIN wallets
    /\ wallets[returned.call.userID] >= returned.call.amount
    /\ returned.call.toUserID \notin DOMAIN wallets

\* the locks a thread holds or, as the announced writer, keeps others from
LocksOf(t) ==
    (IF mu.writer = t \/ t \in mu.readers THEN {<<"ws.mu">>} ELSE {})
    \cup {<<"userLock", id>> : id \in {i \in DOMAIN userLocks : userLocks[i] = t}}
    \cup {<<"wallet.mu", id>> : id \in {i \in DOMAIN walletMu :
                                          walletMu[i].writer = t \/ t \in walletMu[i].readers}}

\* the operations that look one account up
LooksUp == {"Deposit", "Withdraw", "GetBalance", "GetTransactionHistory"}

\* C11: Deposit, Withdraw (with an amount that passes the amount test),
\* GetBalance and GetTransactionHistory return ErrUserNotFound exactly when
\* the id is not registered, having written no balance and appended nothing;
\* the step in which they return leaves every balance and the log as they
\* are, and a thread that is in no call holds no lock
C11_NotFoundInv ==
    /\ returned.call.op \in LooksUp =>
          /\ (returned.call.op \in Mutators => returned.call.amount > 0) =>
                (returned.err = ErrUserNotFound <=> returned.call.userID \notin DOMAIN wallets)
          /\ returned.err = ErrUserNotFound =>
                (returned.eff.writes = 0 /\ returned.eff.log = 0 /\ returned.list = <<>>)
    /\ \A t \in DOMAIN pc : Idle(t) => LocksOf(t) = {}

C11_NotFound ==
    /\ []C11_NotFoundInv
    /\ [][(returned'.call.op \in LooksUp /\ returned'.err = ErrUserNotFound)
          => (wallets' = wallets /\ transactions' = transactions)]_vars

\* a Deposit to an id that is not registered has returned (its entry of the
\* lock table is left, free) while another account holds money and another
\* call is in progress
C11_Witness ==
    /\ returned.call.op = "Deposit"
    /\ returned.err = ErrUserNotFound
    /\ returned.call.userID \in DOMAIN userLocks
    /\ \E id \in DOMAIN wallets : wallets[id] > 0
    /\ \E t \in DOMAIN pc : InProgress(t)

\* the places of the log whose entry has id as its source or its destination
PlacesOf(id) ==
    {i \in 1..Len(transactions) :
        transactions[i].FromUserID = id \/ transactions[i].ToUserID = id}

\* C12: GetTransactionHistory of a registered id returns the entries of the
\* log whose source or destination is the id: as many as there are, each
\* taken from its own place of the log, in the order of the places
C12_HistoryIsFilteredLog ==
    (returned.call.op = "GetTransactionHistory" /\ returned.err = Nil) =>
        LET id == returned.call.userID
            list == returned.list IN
        /\ id \in DOMAIN users
        /\ Len(list) = Cardinality(PlacesOf(id))
        /\ \E f \in [1..Len(list) -> PlacesOf(id)] :
              /\ \A k \in 1..Len(list) : list[k] = transactions[f[k]]
              /\ \A k, l \in 1..Len(list) : k < l => f[k] < f[l]

\* the history of an account that received a transfer: two entries, the
\* transfer among them, and an entry of the other account left out
C12_Witness ==
    /\ returned.call.op = "GetTransactionHistory"
    /\ returned.err = Nil
    /\ Len(returned.list) = 2
    /\ Len(transactions) = 3
    /\ \E k \in 1..2 : /\ returned.list[k].Type = TransactionTransfer
                       /\ returned.list[k].ToUserID = returned.call.userID

\* C13: a step either leaves the log as it is or appends one entry to it,
\* and it appends exactly when a Deposit, Withdraw or Transfer returns nil;
\* the entry names the call's accounts (source = destination for a deposit
\* or a withdrawal), its amount and its type.  No entry is ever changed,
\* removed or moved, so every earlier log is a prefix of every later one
C13_LogStep ==
    LET c == returned'.call
        n == Len(transactions) IN
    /\ (c.op \in Mutators /\ returned'.err = Nil /\ returned' # NoReturn)
          <=> transactions' # transactions
    /\ transactions' # transactions =>
          /\ Len(transactions') = n + 1
          /\ SubSeq(transactions', 1, n) = transactions
          /\ returned'.eff.log = 1
          /\ transactions'[n + 1].FromUserID = c.userID
          /\ transactions'[n + 1].ToUserID = (IF c.op = "Transfer" THEN c.toUserID ELSE c.userID)
          /\ transactions'[n + 1].Amount = c.amount
          /\ transactions'[n + 1].Type = (IF c.op = "Deposit" THEN TransactionDeposit
                                          ELSE IF c.op = "Withdraw" THEN TransactionWithdraw
                                          ELSE TransactionTransfer)

C13_LogAppendOnly == [][C13_LogStep]_vars

\* a log of a deposit, a transfer and a withdrawal
C13_Witness ==
    /\ Len(transactions) = 3
    /\ transactions[1].Type = TransactionDeposit
    /\ transactions[2].Type = TransactionTransfer
    /\ transactions[3].Type = TransactionWithdraw
    /\ returned.call.op = "Withdraw"

\* C14 (as claimed): no two entries of the log have the same ID
C14_UniqueIDs ==
    \A i, j \in 1..Len(transactions) : i # j => transactions[i].ID # transactions[j].ID

\* what a decimal is worth in units of 10^-MaxScale, when that is a whole number
Units(d) == d.value * Pow10(d.exp + MaxScale)

RECURSIVE DepositedUnits(_, _)
DepositedUnits(txs, id) ==
    IF txs = <<>> THEN 0
    ELSE (IF Head(txs).ToUserID = id THEN Units(Head(txs).Amount) ELSE 0)
         + DepositedUnits(Tail(txs), id)

\* C15: after any sequence of DepositDecimal calls into a fresh account, when
\* no call is in progress, the balance has no digit beyond those of the
\* amounts and is worth exactly the sum of the amounts deposited; a
\* GetBalanceDecimal returns that balance (0.1 then 0.2 give 0.3, 0.333 then
\* 0.667 give 1)
C15_ExactDecimalSum ==
    /\ \A id \in DOMAIN wallets : wallets[id].exp >= -MaxScale
    /\ Quiescent =>
          /\ \A id \in DOMAIN wallets :
                Units(wallets[id]) = DepositedUnits(transactions, id)
          /\ (returned.call.op = "GetBalance" /\ returned.err = Nil) =>
                returned.val = wallets[returned.call.userID]
    /\ (Quiescent /\ Len(transactions) = 2) =>
          /\ (transactions[1].Amount = Decimal(1, -1) /\ transactions[2].Amount = Decimal(2, -1))
                => DecimalEqual(wallets["a"], Decimal(3, -1))
          /\ (transactions[1].Amount = Decimal(333, -3) /\ transactions[2].Amount = Decimal(667, -3))
                => DecimalEqual(wallets["a"], Decimal(1, 0))

\* 1, 0.1 and 0.01 deposited, of three different exponents, and the balance read
C15_Witness ==
    /\ Quiescent
    /\ Len(transactions) = 3
    /\ {transactions[i].Amount : i \in 1..3} = {Decimal(1, 0), Decimal(1, -1), Decimal(1, -2)}
    /\ returned.call.op = "GetBalance"
    /\ returned.err = Nil
    /\ DecimalEqual(returned.val, Decimal(111, -2))

\* C16: GetAllUsers returns every account registered at the instant it reads
\* the map, each once and no other element, in some order; the slice is the
\* caller's own, and the users its elements point to are never written
\* again, so what the caller sees in it stays as it was returned, whatever
\* CreateUser calls complete afterwards
C16_UsersSnapshot ==
    /\ returned.call.op = "GetAllUsers" =>
          /\ returned.err = Nil
          /\ Len(returned.list) = Cardinality(DOMAIN users)
          /\ {returned.list[i] : i \in 1..Len(returned.list)} = DOMAIN users
          /\ snapshot.ptrs = returned.list
    /\ \A i \in 1..Len(snapshot.ptrs) : snapshot.ptrs[i] \in DOMAIN users
    /\ Deref(snapshot.ptrs) = snapshot.seen

\* a CreateUser has registered a second account after GetAllUsers returned one
C16_Witness ==
    /\ returned.call.op = "CreateUser"
    /\ returned.err = Nil
    /\ Len(snapshot.ptrs) = 1
    /\ Cardinality(DOMAIN users) = 2

\* C17: a thread that is in no call holds no lock, whatever its calls
\* returned; when no call is in progress the service mutex, every wallet
\* mutex and every per-user mutex are free
C17_NoLockLeftHeld ==
    /\ \A t \in DOMAIN pc : Idle(t) => LocksOf(t) = {}
    /\ Quiescent =>
          /\ mu = RWMutexZero
          /\ \A id \in DOMAIN walletMu : walletMu[id] = RWMutexZero
          /\ \A id \in DOMAIN userLocks : userLocks[id] = NoThread

\* no call is in progress after a Transfer returned ErrInsufficientBalance,
\* which had taken both per-user mutexes and the source wallet's mutex
C17_Witness ==
    /\ Quiescent
    /\ returned.call.op = "Transfer"
    /\ returned.err = ErrInsufficientBalance
    /\ returned.eff.locks = 3
    /\ DOMAIN userLocks = UserIDs

HoldsUserLock(t, id) == id \in DOMAIN userLocks /\ userLocks[id] = t

\* C18: a Transfer in progress holds the per-user mutex of the greater of its
\* two ids only if it holds that of the smaller, whichever is the source; it
\* holds both from before it asks for a wallet mutex until it returns, so it
\* has written no balance and is at no balance write without both
C18_OrderedLocks ==
    \A t \in DOMAIN pc :
        (call[t].op = "Transfer" /\ InProgress(t)) =>
            LET from == call[t].userID
                to == call[t].toUserID
                lo == IF IdLess(from, to) THEN from ELSE to
                hi == IF IdLess(from, to) THEN to ELSE from IN
            /\ HoldsUserLock(t, hi) => HoldsUserLock(t, lo)
            /\ pc[t] = "tr_secondLock" => HoldsUserLock(t, lo)
            /\ (\/ eff[t].writes > 0
                \/ pc[t] \in {"tr_sub", "tr_add"}
                \/ \E id \in DOMAIN walletMu : walletMu[id].writer = t
                \/ WalletWriterAwaited(t) # {})
                  => (HoldsUserLock(t, lo) /\ HoldsUserLock(t, hi))

\* a Transfer b -> a holds the mutex of "a" and waits for that of "b", which
\* a Deposit holds
C18_Witness ==
    \E t, d \in DOMAIN pc :
        /\ call[t].op = "Transfer" /\ call[t].userID = "b" /\ call[t].toUserID = "a"
        /\ pc[t] = "tr_secondLock"
        /\ HoldsUserLock(t, "a")
        /\ call[d].op = "Deposit"
        /\ HoldsUserLock(d, "b")

\* C19 (as claimed): no thread that holds ws.mu, for reading or for writing,
\* is asking or waiting for a per-user mutex or a wallet mutex
C19_NoRegistryLockWhileWaiting ==
    \A t \in DOMAIN pc :
        (mu.writer = t \/ t \in mu.readers) =>
            /\ UserLockAwaited(t) = {}
            /\ WalletWriterAwaited(t) = {}
            /\ WalletReadersAwaited(t) = {}

\* the per-user mutexes and the wallet mutexes a thread holds (a writer that
\* still waits for the readers to leave does not hold the mutex yet)
HeldUserLocks(t) == {id \in DOMAIN userLocks : userLocks[id] = t}
HeldWalletLocks(t) ==
    {id \in DOMAIN walletMu :
        \/ t \in walletMu[id].readers
        \/ walletMu[id].writer = t /\ id \notin WalletReadersAwaited(t)}
PerAccountLocks(t) == Cardinality(HeldUserLocks(t)) + Cardinality(HeldWalletLocks(t))

PeakLocks(t) == PerAccountLocks(t) + Cardinality(WalletReadersAwaited(t))

-----------------------------------------------------------------------------
(* The lock table and the critical sections *)

\* the ids the call in progress has asked getLock for
GotLock(t) ==
    IF ~InProgress(t) \/ eff[t].getLocks = 0 THEN {}
    ELSE IF call[t].op = "Transfer" THEN {call[t].userID, call[t].toUserID}
    ELSE {call[t].userID}

\* the call in progress is between the Lock() and the Unlock() of the
\* per-user mutex it got for id (told from the position of the call alone)
InCriticalSection(t, id) ==
    /\ InProgress(t)
    /\ call[t].op \in Mutators
    /\ IF call[t].op = "Transfer"
       THEN LET from == call[t].userID
                to == call[t].toUserID
                lo == IF IdLess(from, to) THEN from ELSE to
                hi == IF IdLess(from, to) THEN to ELSE from IN
            \/ eff[t].locks >= 1 /\ id = lo
            \/ eff[t].locks >= 2 /\ id = hi
       ELSE eff[t].locks >= 1 /\ id = call[t].userID

\* C21: the mutex a call got from getLock(id) is the entry of id in the lock
\* table for as long as the call goes on, so that every call for one id, the
\* calls racing on the first access included, works on one mutex: the entry
\* exists from the first getLock(id) on, and while a call has that mutex
\* locked the table names that call as its holder
C21_TableInv ==
    \A t \in DOMAIN pc :
        /\ GotLock(t) \subseteq DOMAIN userLocks
        /\ \A id \in DOMAIN userLocks : InCriticalSection(t, id) => userLocks[id] = t

\* C21: no step removes an entry of the lock table, and an entry changes
\* only by the Lock() of a call that takes the free mutex or by the Unlock()
\* of its holder as it returns, never by a getLock
C21_TableStep ==
    \A id \in DOMAIN userLocks :
        /\ id \in DOMAIN userLocks'
        /\ userLocks'[id] # userLocks[id] =>
            \/ /\ userLocks[id] = NoThread
               /\ id \in GotLock(userLocks'[id])
               /\ eff'[userLocks'[id]].locks = eff[userLocks'[id]].locks + 1
            \/ /\ userLocks'[id] = NoThread
               /\ InCriticalSection(userLocks[id], id)
               /\ pc'[userLocks[id]] = "idle"

C21_GetOrCreate == []C21_TableInv /\ [][C21_TableStep]_vars

\* two Deposit calls for one unregistered id raced on the first getLock: one
\* has the mutex locked, the other waits for the same mutex
C21_Witness ==
    \E t, u \in DOMAIN pc :
        /\ t # u
        /\ call[t].op = "Deposit" /\ call[u].op = "Deposit"
        /\ call[t].userID = call[u].userID
        /\ call[t].userID \notin DOMAIN wallets
        /\ InCriticalSection(t, call[t].userID)
        /\ pc[u] = "dep_userLock"
        /\ WaitsOn(u, t)

\* C22: at most one Deposit, Withdraw or Transfer is between the Lock() and
\* the Unlock() of the per-user mutex of any one account
C22_OneInSection ==
    \A id \in DOMAIN userLocks :
        Cardinality({t \in DOMAIN pc : InCriticalSection(t, id)}) <= 1

\* C22: a step that changes the balance of an account is a balance write of
\* a call that is in its critical section on that account and holds the
\* per-user mutex of that account
C22_WriteStep ==
    \A id \in DOMAIN wallets :
        wallets'[id] # wallets[id] =>
            \E t \in DOMAIN pc :
                /\ eff'[t].writes = eff[t].writes + 1
                /\ id \in {call[t].userID, call[t].toUserID}
                /\ InCriticalSection(t, id)
                /\ HoldsUserLock(t, id)

C22_BalanceUnderLock == []C22_OneInSection /\ [][C22_WriteStep]_vars

\* a Transfer writes the balance of its source while a Deposit into that
\* account waits for the per-user mutex
C22_Witness ==
    \E t, u \in DOMAIN pc :
        /\ call[t].op = "Transfer" /\ pc[t] = "tr_toLock" /\ eff[t].writes = 1
        /\ call[u].op = "Deposit" /\ pc[u] = "dep_userLock"
        /\ call[u].userID = call[t].userID
        /\ WaitsOn(u, t)

\* the call in progress has written the balance of id and has not yet
\* appended its entry to the log
PendingWrite(t, id) ==
    /\ InProgress(t)
    /\ eff[t].log = 0
    /\ \/ eff[t].writes >= 1 /\ id = call[t].userID
       \/ eff[t].writes >= 2 /\ id = call[t].toUserID

\* C23: the entries of the operations on one account are in the log in the
\* order of their balance writes to that account: a call whose write to an
\* account is not yet in the log is the only such call for that account, and
\* the step that puts an entry in the log puts it at the end, for the one
\* call with a write to the entry's accounts that is not yet in the log
C23_OnePending ==
    \A id \in DOMAIN wallets :
        Cardinality({t \in DOMAIN pc : PendingWrite(t, id)}) <= 1

C23_AppendStep ==
    transactions' # transactions =>
        \E t \in DOMAIN pc :
            /\ pc[t] = "rec_append" /\ pc'[t] = "idle"
            /\ Len(transactions') = Len(transactions) + 1
            /\ SubSeq(transactions', 1, Len(transactions)) = transactions
            /\ LET tx == transactions'[Len(transactions')] IN
               /\ tx.FromUserID = call[t].userID
               /\ tx.ToUserID \in {call[t].userID, call[t].toUserID}
               /\ \A id \in {tx.FromUserID, tx.ToUserID} :
                      {u \in DOMAIN pc : PendingWrite(u, id)} = {t}

C23_LogInWriteOrder == []C23_OnePending /\ [][C23_AppendStep]_vars

\* a Deposit into "a" is in the log, a Transfer out of "a" has written both
\* balances and is about to append, and a Withdraw from "a" waits for the
\* per-user mutex
C23_Witness ==
    \E t, u \in DOMAIN pc :
        /\ Len(transactions) >= 1
        /\ transactions[1].Type = TransactionDeposit /\ transactions[1].ToUserID = "a"
        /\ call[t].op = "Transfer" /\ call[t].userID = "a" /\ pc[t] = "rec_append"
        /\ PendingWrite(t, "a") /\ PendingWrite(t, "b")
        /\ call[u].op = "Withdraw" /\ call[u].userID = "a" /\ pc[u] = "wd_userLock"

\* C24 (as claimed): a call that is in recordTransaction, about to append its
\* entry to the log, holds no per-user mutex and no wallet mutex
C24_AppendAfterRelease ==
    \A t \in DOMAIN pc :
        pc[t] \in {"rec_Lock", "rec_append"} => PerAccountLocks(t) = 0

\* C25 (as claimed): the lock table has entries for registered ids only, and
\* no call has asked getLock for, waits for or holds the per-user mutex of an
\* id that is not registered
C25_LocksOnlyRegistered ==
    /\ DOMAIN userLocks \subseteq DOMAIN wallets
    /\ \A t \in DOMAIN pc :
        /\ GotLock(t) \subseteq DOMAIN wallets
        /\ UserLockAwaited(t) \subseteq DOMAIN wallets
        /\ HeldUserLocks(t) \subseteq DOMAIN wallets

\* the accounts of the call in progress
AccountsOf(t) ==
    IF call[t].op = "Transfer" THEN {call[t].userID, call[t].toUserID} ELSE {call[t].userID}

\* the call in progress is at the Lock() of a per-user mutex or of a wallet mutex
AtPerAccountLock(t) ==
    UserLockAwaited(t) \cup WalletWriterAwaited(t) \cup WalletReadersAwaited(t) # {}

\* C26: of two calls in progress on disjoint sets of accounts neither waits
\* for a per-account lock the other holds, and whichever of the two is at the
\* Lock() of a per-account lock can take it
C26_DisjointNeverBlock ==
    \A t, u \in DOMAIN pc :
        (/\ t # u
         /\ InProgress(t) /\ InProgress(u)
         /\ AccountsOf(t) \cap AccountsOf(u) = {}) =>
            /\ ~WaitsOn(t, u)
            /\ AtPerAccountLock(t) => ENABLED WorkDisjoint(t)

\* a Transfer between "a" and "b" and a Transfer between "c" and "d" each
\* hold their two per-user mutexes
C26_Witness ==
    \E t, u \in DOMAIN pc :
        /\ call[t].op = "Transfer" /\ AccountsOf(t) = {"a", "b"}
        /\ call[u].op = "Transfer" /\ AccountsOf(u) = {"c", "d"}
        /\ HeldUserLocks(t) = {"a", "b"}
        /\ HeldUserLocks(u) = {"c", "d"}

\* C27 (as claimed): a Transfer that is at ws.mu.RLock() for its registry
\* lookup is never kept from it by a Transfer on a disjoint pair of accounts
C27_NoRegistryContention ==
    \A t, u \in DOMAIN pc :
        (/\ t # u
         /\ call[t].op = "Transfer" /\ call[u].op = "Transfer"
         /\ AccountsOf(t) \cap AccountsOf(u) = {}
         /\ pc[t] = "tr_lookup") =>
            /\ mu.writer # u
            /\ ENABLED TransferLookup(t)

\* C28: a Withdraw or Transfer that reaches its balance test returns
\* ErrInsufficientBalance exactly when the balance of the debited account is
\* less than the amount; otherwise it returns nil and leaves the balance less
\* the amount, which is zero when the amount equals the balance
C28_StrictInsufficiency ==
    LET c == returned.call
        e == returned.eff IN
    (c.op \in {"Withdraw", "Transfer"} /\ returned.err \in {Nil, ErrInsufficientBalance}) =>
        /\ returned.err = ErrInsufficientBalance <=> e.sFrom < c.amount
        /\ returned.err = Nil <=> e.sFrom >= c.amount
        /\ returned.err = Nil => wallets[c.userID] = e.sFrom - c.amount
        /\ (returned.err = Nil /\ e.sFrom = c.amount) => wallets[c.userID] = 0

\* a Withdraw of the whole balance, 2, has returned nil and the balance is zero
C28_Witness ==
    /\ returned.call.op = "Withdraw"
    /\ returned.err = Nil
    /\ returned.call.amount = 2
    /\ returned.eff.sFrom = 2
    /\ wallets[returned.call.userID] = 0

\* the error the precedence of Transfer gives for a call and the balance
\* of its source
TransferError(c, balance) ==
    IF c.amount <= 0 THEN ErrInvalidAmount
    ELSE IF c.userID = c.toUserID THEN ErrSameUserTransfer
    ELSE IF c.userID \notin DOMAIN wallets \/ c.toUserID \notin DOMAIN wallets
         THEN ErrUserNotFound
    ELSE IF balance < c.amount THEN ErrInsufficientBalance
    ELSE Nil

\* C29: a Transfer returns the first of ErrInvalidAmount (amount <= 0),
\* ErrSameUserTransfer (equal ids), ErrUserNotFound (an id not registered)
\* and ErrInsufficientBalance (balance < amount) whose condition holds,
\* whatever later conditions hold as well, and nil when none holds
C29_TransferErrorPrecedence ==
    returned.call.op = "Transfer" =>
        returned.err = TransferError(returned.call, returned.eff.sFrom)

\* a Transfer with a zero amount from an unregistered id to itself has
\* returned ErrInvalidAmount
C29_Witness ==
    /\ returned.call.op = "Transfer"
    /\ returned.call.amount = 0
    /\ returned.call.userID = returned.call.toUserID
    /\ returned.call.userID \notin DOMAIN wallets
    /\ returned.err = ErrInvalidAmount

\* what the call in progress has written to the balance of id and not yet
\* put in the log
UnloggedChange(t, id) ==
    IF InProgress(t) /\ eff[t].log = 0
    THEN (IF id = call[t].userID THEN eff[t].dFrom ELSE 0)
         + (IF id = call[t].toUserID THEN eff[t].dTo ELSE 0)
    ELSE 0

RECURSIVE SumUnlogged(_, _)
SumUnlogged(ts, id) ==
    IF ts = {} THEN 0
    ELSE LET t == CHOOSE x \in ts : TRUE IN UnloggedChange(t, id) + SumUnlogged(ts \ {t}, id)

\* C30: in every state every balance is the net of the account's log entries
\* plus what the calls in progress have written to it and not yet logged
C30_BalanceIsLogPlusUnlogged ==
    \A id \in DOMAIN wallets :
        wallets[id] = LogNet(transactions, id) + SumUnlogged(DOMAIN pc, id)

\* C30: the step that puts an entry in the log is taken by a call that has
\* made all of its balance writes, and what it wrote to each account is what
\* the entry says
C30_AppendStep ==
    transactions' # transactions =>
        \E t \in DOMAIN pc :
            /\ pc[t] = "rec_append" /\ pc'[t] = "idle"
            /\ eff[t].writes = (IF call[t].op = "Transfer" THEN 2 ELSE 1)
            /\ Len(transactions') = Len(transactions) + 1
            /\ \A id \in DOMAIN wallets :
                   UnloggedChange(t, id) = TxNet(transactions'[Len(transactions')], id)

C30_LogNeverAhead == []C30_BalanceIsLogPlusUnlogged /\ [][C30_AppendStep]_vars

\* with a Deposit in the log, a Transfer has debited its source and not yet
\* credited its destination: the balance of the source is behind its log net
\* by the amount
C30_Witness ==
    \E t \in DOMAIN pc :
        /\ Len(transactions) >= 1
        /\ call[t].op = "Transfer" /\ pc[t] = "tr_toLock"
        /\ wallets[call[t].userID] = LogNet(transactions, call[t].userID) - call[t].amount
        /\ wallets[call[t].toUserID] = LogNet(transactions, call[t].toUserID)

-----------------------------------------------------------------------------
(* Frame effects *)

\* the balances of the accounts outside ids, and the registered accounts,
\* are after the step what they were before it
BalancesKeptOutside(ids) ==
    \A id \in DOMAIN wallets \ ids : id \in DOMAIN wallets' /\ wallets'[id] = wallets[id]
AccountsKept ==
    \A id \in DOMAIN users : id \in DOMAIN users' /\ users'[id] = users[id]

\* what a step of thread t, in a call of operation op on the accounts ids,
\* may change
FrameOf(op, ids) ==
    /\ AccountsKept
    /\ DOMAIN wallets \subseteq DOMAIN wallets'
    /\ IF op \in {"GetBalance", "GetTransactionHistory", "GetAllUsers"}
       THEN UNCHANGED <<users, wallets, transactions>>
       ELSE IF op = "CreateUser"
       THEN BalancesKeptOutside({}) /\ UNCHANGED transactions
       ELSE /\ BalancesKeptOutside(ids)
            /\ UNCHANGED users
            /\ DOMAIN wallets' = DOMAIN wallets

\* C31: a step of a Deposit or Withdraw changes no balance but that of its
\* id, a step of a Transfer none but those of its two ids, a step of
\* CreateUser no existing balance and no log entry, a step of GetBalance,
\* GetTransactionHistory or GetAllUsers no balance, account or log entry, and
\* no step removes or alters a registered account
C31_FrameStep ==
    /\ \A t \in DOMAIN pc :
          pc'[t] # pc[t] =>
              IF InProgress(t)
              THEN FrameOf(call[t].op, AccountsOf(t))
              ELSE FrameOf(call'[t].op,
                           IF call'[t].op = "Transfer"
                           THEN {call'[t].userID, call'[t].toUserID}
                           ELSE {call'[t].userID})
    /\ (\A t \in DOMAIN pc : pc'[t] = pc[t]) => UNCHANGED <<users, wallets, transactions>>

C31_OnlyNamedAccounts == [][C31_FrameStep]_vars

\* with both accounts registered, a Deposit and a Transfer in the log and a
\* balance above zero, a CreateUser for a registered id has returned
\* ErrUserAlreadyExists
C31_Witness ==
    /\ DOMAIN wallets = {"a", "b"}
    /\ \E i \in 1..Len(transactions) : transactions[i].Type = TransactionTransfer
    /\ \E i \in 1..Len(transactions) : transactions[i].Type = TransactionDeposit
    /\ returned.call.op = "CreateUser"
    /\ returned.err = ErrUserAlreadyExists
    /\ \E id \in DOMAIN wallets : wallets[id] > 0

====
